---- MODULE Spec2Model ----
(***************************************************************************)
(* Radio coverage pipeline: node ingestion and validation, antenna height  *)
(* resolution, per-node viewshed orchestration and coverage aggregation    *)
(* (src/src/viewshed.py, src/src/merge.py).                                *)
(*                                                                         *)
(* Numbers are integers: heights and elevations in metres, coordinates in  *)
(* whole degrees, ratios in percent.                                       *)
(***************************************************************************)
EXTENDS Integers, Sequences, FiniteSets, TLC

VARIABLES
    cfg,        \* the configuration dictionary of the run
    dem,        \* the terrain raster behind dem_path
    gdal,       \* TRUE iff shutil.which("gdal_viewshed") finds the executable
    table,      \* the rows of the nodes file, as read
    columns,    \* the column names of the nodes file, as read
    pc,         \* position of the run
    df,         \* the cleaned data frame of _load_nodes
    nodes,      \* list[Node] returned by _load_nodes
    stats,      \* the statistics dictionary of _load_nodes
    rejected,   \* rows written to nodes_rejected_csv
    written,    \* output files written so far
    job,        \* state of every per-node job
    ret,        \* value returned by every finished job ("" = skipped)
    vis,        \* raster the visibility primitive produced for every job
    files,      \* contents of tmp_dir: output path -> raster
    rasters,    \* list of raster paths handed to the merge
    coverage,   \* the accumulator written to coverage_tif
    geojson,    \* the features written to nodes_geojson
    result,     \* dictionary returned by the operation
    err         \* exception that ended the run, "" if none

vars == <<cfg, dem, gdal, table, columns, pc, df, nodes, stats, rejected, written,
          job, ret, vis, files, rasters, coverage, geojson, result, err>>

(***************************************************************************)
(* Bounds of the model.                                                    *)
(***************************************************************************)
MaxRows == 3        \* rows of a nodes file given to _load_nodes alone
MaxRunRows == 3     \* rows of a nodes file given to a whole compute run
MaxRasters == 2     \* rasters handed to merge_binary_rasters alone
MaxShortRows == 1   \* rows of a nodes file that lacks a required column

(***************************************************************************)
(* Small arithmetic.                                                       *)
(***************************************************************************)
Max2(a, b) == IF a >= b THEN a ELSE b
Min2(a, b) == IF a <= b THEN a ELSE b

\* np.ceil(a / b) for b > 0
CeilDiv(a, b) == -((-a) \div b)

\* the least r in lo..hi with r * r >= n, by bisection
RECURSIVE SqrtFrom(_, _, _)
SqrtFrom(n, lo, hi) ==
    IF lo >= hi THEN hi
    ELSE LET mid == (lo + hi) \div 2
         IN  IF mid * mid >= n THEN SqrtFrom(n, lo, mid) ELSE SqrtFrom(n, mid + 1, hi)
\* np.sqrt, rounded up to a whole number: 0 only for 0
ISqrt(n) == IF n <= 0 THEN 0 ELSE SqrtFrom(n, 1, Min2(n, 46340))

RECURSIVE SumSeq(_)
SumSeq(s) == IF s = <<>> THEN 0 ELSE Head(s) + SumSeq(Tail(s))

RECURSIVE MaxSeq(_)
MaxSeq(s) == IF Len(s) = 1 THEN s[1] ELSE Max2(Head(s), MaxSeq(Tail(s)))

RECURSIVE SetMax(_)
SetMax(S) == LET x == CHOOSE y \in S : TRUE
             IN  IF S = {x} THEN x ELSE Max2(x, SetMax(S \ {x}))

(***************************************************************************)
(* Cells of the nodes file.                                                *)
(***************************************************************************)
\* float("nan"): what pd.to_numeric(errors="coerce") leaves for a cell that
\* is absent or not a number
NaN == -99999

Num(v) == [k |-> "num", v |-> v]
Missing == [k |-> "nan", v |-> 0]
Text == [k |-> "text", v |-> 0]

\* pd.to_numeric(column, errors="coerce") on one cell
ToNumeric(cell) == IF cell.k = "num" THEN cell.v ELSE NaN

\* str.strip() on the identifiers the model draws
Strip(s) ==
    CASE s = " A" -> "A"
      [] s = "A " -> "A"
      [] s = " "  -> ""
      [] OTHER    -> s

\* the frame after lines 118-121: id trimmed, lat/lon coerced; idx is the
\* frame's index label, the position of the row in the file
RECURSIVE ParseFrom(_, _)
ParseFrom(t, i) ==
    IF i > Len(t) THEN <<>>
    ELSE <<[idx |-> i,
            id  |-> Strip(t[i].id),
            lat |-> ToNumeric(t[i].lat),
            lon |-> ToNumeric(t[i].lon),
            h   |-> t[i].h]>> \o ParseFrom(t, i + 1)
ParseFrame(t) == ParseFrom(t, 1)

IsNaRow(r) == r.lat = NaN \/ r.lon = NaN
NotNaRow(r) == ~IsNaRow(r)
EmptyId(r) == r.id = ""
NonEmptyId(r) == r.id # ""
InvalidCoord(r) == r.lat < -90 \/ r.lat > 90 \/ r.lon < -180 \/ r.lon > 180
ValidCoord(r) == ~InvalidCoord(r)
ZeroCoord(r) == r.lat = 0 /\ r.lon = 0
NonZeroCoord(r) == ~ZeroCoord(r)

\* df.drop_duplicates(subset=["id"], keep="last"): a wrong keep
RECURSIVE DropDuplicatesLast(_)
DropDuplicatesLast(s) ==
    IF s = <<>> THEN <<>>
    ELSE IF \E j \in 2..Len(s) : s[j].id = Head(s).id
         THEN DropDuplicatesLast(Tail(s))
         ELSE <<Head(s)>> \o DropDuplicatesLast(Tail(s))

\* a dedupe that hands back the kept rows last row first
RECURSIVE DropDuplicatesReversed(_)
DropDuplicatesReversed(s) ==
    IF s = <<>> THEN <<>>
    ELSE LET init == DropDuplicatesReversed(SubSeq(s, 1, Len(s) - 1))
             last == s[Len(s)]
         IN  IF \E j \in 1..(Len(s) - 1) : s[j].id = last.id
             THEN init
             ELSE <<last>> \o init

\* df.drop_duplicates(subset=["id"], keep="first")
RECURSIVE DropDuplicates(_)
DropDuplicates(s) ==
    IF s = <<>> THEN <<>>
    ELSE LET init == DropDuplicates(SubSeq(s, 1, Len(s) - 1))
             last == s[Len(s)]
         IN  IF \E j \in 1..(Len(s) - 1) : s[j].id = last.id
             THEN init
             ELSE Append(init, last)

\* the validation pipeline of _load_nodes, lines 117-158: the frame after
\* every stage, the statistics and the rejected-records frame
Validate(c, t) ==
    LET parsed   == ParseFrame(t)
        no_na    == SelectSeq(parsed, NotNaRow)
        no_empty == SelectSeq(no_na, NonEmptyId)
        in_range == IF c.drop_invalid_coords THEN SelectSeq(no_empty, ValidCoord)
                    ELSE no_empty
        non_zero == IF c.drop_zero_coords THEN SelectSeq(in_range, NonZeroCoord)
                    ELSE in_range
        kept     == IF c.dedupe_by_id THEN DropDuplicates(non_zero) ELSE non_zero
        keep_ids == {kept[i].id : i \in 1..Len(kept)}
        NotKept(r) == r.id \notin keep_ids
    IN  [kept |-> kept,
         stats |->
            [rows_input                 |-> Len(t),
             rows_dropped_nan           |-> Len(SelectSeq(parsed, IsNaRow)),
             rows_dropped_empty_id      |-> Len(SelectSeq(no_na, EmptyId)),
             rows_dropped_invalid_range |-> Len(SelectSeq(no_empty, InvalidCoord)),
             rows_dropped_zero_coords   |-> Len(SelectSeq(in_range, ZeroCoord)),
             rows_dropped_duplicate_id  |-> Len(non_zero) - Len(kept),
             rows_valid                 |-> Len(kept)],
         rejected |-> SelectSeq(parsed, NotKept)]

\* the frame that reaches height resolution, line 192
Deduped(c, t) == Validate(c, t).kept

(***************************************************************************)
(* Terrain raster and height resolution.                                   *)
(***************************************************************************)
\* rio_transform followed by rowcol: the pixel of a position on a north-up
\* raster with one pixel per coordinate unit
RowOf(d, lat) == d.north - lat
ColOf(d, lon) == lon - d.west

\* the in-grid test of _load_nodes, line 200
InGrid(d, row, col) == 0 <= row /\ row < d.height /\ 0 <= col /\ col < d.width

\* an outside test that lets the row and the column just past the raster in
OutsideGridOffByOne(d, row, col) == row < 0 \/ col < 0 \/ row > d.height \/ col > d.width

\* an outside test that forgets the rows
OutsideGridColumnsOnly(d, row, col) == col < 0 \/ col >= d.width

\* the outside test of _compute_one, line 307
OutsideGrid(d, row, col) == row < 0 \/ col < 0 \/ row >= d.height \/ col >= d.width

\* a radius that takes the middle of the path whatever the split ratio
FresnelRadiusMidpoint(distance_m, frequency_mhz, split_ratio) ==
    IF distance_m <= 0 \/ frequency_mhz <= 0 THEN 0
    ELSE ISqrt(CeilDiv(3 * distance_m * 50 * 50, 100 * frequency_mhz))

\* first Fresnel zone radius in metres, rounded up to a whole metre, so that
\* it is 0 exactly where the code returns 0.0; 17.32^2 = 300 and the split
\* ratio is in percent
_fresnel_radius_m(distance_m, frequency_mhz, split_ratio) ==
    IF distance_m <= 0 \/ frequency_mhz <= 0 THEN 0
    ELSE IF distance_m * split_ratio <= 0 \/ distance_m * (100 - split_ratio) <= 0
         THEN 0
         ELSE ISqrt(CeilDiv(3 * distance_m * split_ratio * (100 - split_ratio),
                            100 * frequency_mhz))

\* a floor that subtracts the clearance margin instead of adding it
EstimateMarginSubtracted(d, lat, lon, ground_elev_m, local_radius_m, clearance_margin_m) ==
    LET row == RowOf(d, lat)
        col == ColOf(d, lon)
        pixel_size_m == Max2(Min2(d.pixel_x, d.pixel_y), 1)
        px_radius == Max2(CeilDiv(local_radius_m, pixel_size_m), 1)
        r0 == Max2(row - px_radius, 0)
        r1 == Min2(row + px_radius + 1, d.height)
        c0 == Max2(col - px_radius, 0)
        c1 == Min2(col + px_radius + 1, d.width)
    IN  IF r0 >= r1 \/ c0 >= c1 THEN 0
        ELSE LET local_max == SetMax({d.elev[r + 1][c + 1] :
                                        r \in r0..(r1 - 1), c \in c0..(c1 - 1)})
             IN  Max2(0, local_max - ground_elev_m - clearance_margin_m)

\* a window that leaves out its last row and its last column
EstimateHalfOpenWindow(d, lat, lon, ground_elev_m, local_radius_m, clearance_margin_m) ==
    LET row == RowOf(d, lat)
        col == ColOf(d, lon)
        pixel_size_m == Max2(Min2(d.pixel_x, d.pixel_y), 1)
        px_radius == Max2(CeilDiv(local_radius_m, pixel_size_m), 1)
        r0 == Max2(row - px_radius, 0)
        r1 == Min2(row + px_radius, d.height)
        c0 == Max2(col - px_radius, 0)
        c1 == Min2(col + px_radius, d.width)
    IN  IF r0 >= r1 \/ c0 >= c1 THEN 0
        ELSE LET local_max == SetMax({d.elev[r + 1][c + 1] :
                                        r \in r0..(r1 - 1), c \in c0..(c1 - 1)})
             IN  Max2(0, local_max - ground_elev_m + clearance_margin_m)

_estimate_min_height_from_local_terrain(d, lat, lon, ground_elev_m, local_radius_m, clearance_margin_m) ==
    LET row == RowOf(d, lat)
        col == ColOf(d, lon)
        pixel_size_m == Max2(Min2(d.pixel_x, d.pixel_y), 1)
        px_radius == Max2(CeilDiv(local_radius_m, pixel_size_m), 1)
        r0 == Max2(row - px_radius, 0)
        r1 == Min2(row + px_radius + 1, d.height)
        c0 == Max2(col - px_radius, 0)
        c1 == Min2(col + px_radius + 1, d.width)
    IN  IF r0 >= r1 \/ c0 >= c1 THEN 0
        ELSE LET local_max == SetMax({d.elev[r + 1][c + 1] :
                                        r \in r0..(r1 - 1), c \in c0..(c1 - 1)})
                 needed == local_max - ground_elev_m + clearance_margin_m
             IN  Max2(0, needed)

\* lines 198-210: ground elevation and terrain floor of one row
GroundElev(d, r) ==
    IF InGrid(d, RowOf(d, r.lat), ColOf(d, r.lon))
    THEN d.elev[RowOf(d, r.lat) + 1][ColOf(d, r.lon) + 1]
    ELSE NaN

MinRequired(c, d, r) ==
    IF InGrid(d, RowOf(d, r.lat), ColOf(d, r.lon)) /\ c.mode = "adaptive_min"
    THEN _estimate_min_height_from_local_terrain(
             d, r.lat, r.lon, GroundElev(d, r), c.local_radius_m, c.clearance_margin_m)
    ELSE 0

\* lines 212-215
FresnelMargin(c) ==
    IF c.use_fresnel
    THEN Max2(0, (_fresnel_radius_m(c.max_distance_m, c.frequency_mhz,
                                    c.fresnel_sample_ratio)
                    * c.fresnel_clearance_ratio) \div 100)
    ELSE 0

\* line 193: the height cell of a row that has one, else the default
RawHeight(c, r) == IF r.h.k = "num" THEN r.h.v ELSE c.observer_height_default_m

\* a clamp that forgets the upper cap
UsedHeightUncapped(raw_h, min_height_m, max_height_m, min_required_h, fresnel_margin) ==
    Max2(Max2(Max2(raw_h, min_height_m), min_required_h), min_required_h + fresnel_margin)

\* a height that adds the Fresnel margin to the raw input height
UsedHeightFresnelOnInput(raw_h, min_height_m, max_height_m, min_required_h, fresnel_margin) ==
    Min2(Max2(Max2(Max2(raw_h, min_height_m), min_required_h), raw_h + fresnel_margin),
         max_height_m)

\* lines 217-219
UsedHeight(raw_h, min_height_m, max_height_m, min_required_h, fresnel_margin) ==
    Min2(Max2(Max2(Max2(raw_h, min_height_m), min_required_h),
              min_required_h + fresnel_margin),
         max_height_m)

\* the row of the cleaned frame with the columns of lines 241-245
ResolveRow(c, d, r) ==
    LET raw_h == RawHeight(c, r)
        min_required_h == MinRequired(c, d, r)
        fresnel_margin == FresnelMargin(c)
    IN  [idx |-> r.idx, id |-> r.id, lat |-> r.lat, lon |-> r.lon,
         height_input_m          |-> raw_h,
         height_min_required_m   |-> min_required_h,
         height_fresnel_margin_m |-> fresnel_margin,
         height_used_m           |-> UsedHeight(raw_h, c.min_height_m, c.max_height_m,
                                                min_required_h, fresnel_margin),
         ground_elev_m           |-> GroundElev(d, r)]

\* the Node of lines 224-233; the file has no name column, so name = id
NodeOf(x) ==
    [node_id |-> x.id, name |-> x.id, lat |-> x.lat, lon |-> x.lon,
     input_height_m |-> x.height_input_m,
     min_required_height_m |-> x.height_min_required_m,
     height_m |-> x.height_used_m,
     ground_elev_m |-> x.ground_elev_m]

\* line 193: float() of a height cell that holds text raises ValueError
HeightRaises(s) == \E i \in 1..Len(s) : s[i].h.k = "text"

(***************************************************************************)
(* _load_nodes as one step.                                                *)
(***************************************************************************)
NoStats == [rows_input |-> -1]

\* lines 109-112: the columns _load_nodes cannot do without
required == {"id", "lat", "lon"}

LoadNodes ==
    /\ pc = "start"
    /\ LET v == Validate(cfg, table)
           resolved == [i \in 1..Len(v.kept) |-> ResolveRow(cfg, dem, v.kept[i])]
       IN  IF required \ columns # {}
           THEN /\ pc' = "failed"
                /\ err' = "Missing node columns"
                /\ UNCHANGED <<df, nodes, stats, rejected, written>>
           ELSE /\ rejected' = v.rejected
                /\ IF HeightRaises(v.kept)
                   THEN /\ pc' = "failed"
                        /\ err' = "could not convert string to float"
                        /\ df' = <<>>
                        /\ nodes' = <<>>
                        /\ stats' = NoStats
                        /\ written' = written \cup {"nodes_rejected_csv"}
                   ELSE /\ pc' = "loaded"
                        /\ err' = ""
                        /\ df' = resolved
                        /\ nodes' = [i \in 1..Len(resolved) |-> NodeOf(resolved[i])]
                        /\ stats' = v.stats
                        /\ written' = written \cup {"nodes_rejected_csv",
                                                    "nodes_clean_csv",
                                                    "nodes_stats_json"}
    /\ UNCHANGED <<cfg, dem, gdal, table, columns, job, ret, vis, files, rasters,
                   coverage, geojson, result>>

(***************************************************************************)
(* Rasters and merge_binary_rasters.                                       *)
(*                                                                         *)
(* A raster file is [height, width, off_r, off_c, px]: px is its band, and *)
(* (off_r, off_c) is where its north-west pixel falls on the template      *)
(* grid, so that a raster aligned to the template has offset (0, 0) and    *)
(* the template's dimensions. The accumulator is uint32; the counts here   *)
(* stay far below 2^32.                                                    *)
(***************************************************************************)
\* tmp_dir / f"viewshed_{node.node_id}.tif"
ViewshedPath(node_id) == <<"viewshed_", node_id, ".tif">>

\* the file system: a set of <<path, raster>> with one entry per path
ReadFile(fs, p) == (CHOOSE f \in fs : f[1] = p)[2]
WriteFile(fs, p, r) == {f \in fs : f[1] # p} \cup {<<p, r>>}

\* (src_arr > 0).astype(np.uint8)
Binarize(px) == [r \in DOMAIN px |-> [c \in DOMAIN px[r] |-> IF px[r][c] > 0 THEN 1 ELSE 0]]

\* reproject(..., resampling=nearest) onto the template grid, 0 outside the source
Reproject(ras, d) ==
    [r \in 1..d.height |->
        [c \in 1..d.width |->
            IF (r - ras.off_r) \in 1..ras.height /\ (c - ras.off_c) \in 1..ras.width
            THEN Binarize(ras.px)[r - ras.off_r][c - ras.off_c]
            ELSE 0]]

\* np.zeros((src0.height, src0.width))
ZeroGrid(d) == [r \in 1..d.height |-> [c \in 1..d.width |-> 0]]

\* an accumulation that assigns instead of adding
AddGridOverwrite(a, b) == [r \in DOMAIN a |-> [c \in DOMAIN a[r] |-> b[r][c]]]

\* acc += dst_arr
AddGrid(a, b) == [r \in DOMAIN a |-> [c \in DOMAIN a[r] |-> a[r][c] + b[r][c]]]

\* the loop of lines 24-40
RECURSIVE MergeFrom(_, _, _, _)
MergeFrom(acc, fs, paths, d) ==
    IF paths = <<>> THEN acc
    ELSE MergeFrom(AddGrid(acc, Reproject(ReadFile(fs, Head(paths)), d)), fs, Tail(paths), d)

MergeAcc(fs, paths, d) == MergeFrom(ZeroGrid(d), fs, paths, d)

\* the cells of a grid, row by row
RECURSIVE Flatten(_)
Flatten(g) == IF g = <<>> THEN <<>> ELSE Head(g) \o Flatten(Tail(g))

\* the dictionary of line 47
MergeResult(acc) ==
    [coverage_tif |-> "coverage_tif", max_count |-> MaxSeq(Flatten(acc)),
     sum |-> SumSeq(Flatten(acc))]

(***************************************************************************)
(* compute_coverage.                                                       *)
(***************************************************************************)
NoResult == [nodes |-> -1]
NoRaster == <<>>
NoPath == <<>>
EmptyRaster == [height |-> 0, width |-> 0, off_r |-> 0, off_c |-> 0, px |-> <<>>]

\* line 359
Pooled(c) == c.parallel /\ c.workers > 1

Running(j) == {i \in DOMAIN j : j[i] = "running"}

\* the rasters the visibility primitive may write for a node of the run
PrimitiveOutputs ==
    {[height |-> 2, width |-> 3, off_r |-> 0, off_c |-> 0,
      px |-> << <<1, 1, 0>>, <<0, 1, 0>> >>],
     [height |-> 1, width |-> 2, off_r |-> 1, off_c |-> 2, px |-> << <<1, 1>> >>]}

\* lines 351-357: the empty-node check and the job list
Dispatch ==
    /\ pc = "loaded"
    /\ IF nodes = <<>>
       THEN /\ pc' = "failed"
            /\ err' = "No nodes found in CSV"
            /\ UNCHANGED <<job, ret, vis>>
       ELSE /\ pc' = "running"
            /\ job' = [i \in 1..Len(nodes) |-> "pending"]
            /\ ret' = [i \in 1..Len(nodes) |-> NoPath]
            /\ vis' = [i \in 1..Len(nodes) |-> EmptyRaster]
            /\ err' = err
    /\ UNCHANGED <<cfg, dem, gdal, table, columns, df, nodes, stats, rejected, written,
                   files, rasters, coverage, geojson, result>>

\* a job may start: the pool hands out the jobs in list order to an idle
\* worker (pool.map cuts the list into chunks of ceil(len / (4 * workers))
\* jobs, which is one job for the lists drawn here); without a pool each job
\* waits for the one before it to return
CanStart(i) ==
    /\ job[i] = "pending"
    /\ \A k \in 1..(i - 1) : job[k] # "pending"
    /\ IF Pooled(cfg) THEN Cardinality(Running(job)) < cfg.workers
       ELSE \A k \in 1..(i - 1) : job[k] = "done"

\* _compute_one up to the call of the primitive, lines 296-340
StartJob(i) ==
    /\ pc = "running"
    /\ CanStart(i)
    /\ IF OutsideGrid(dem, RowOf(dem, nodes[i].lat), ColOf(dem, nodes[i].lon))
       THEN /\ job' = [job EXCEPT ![i] = "done"]
            /\ UNCHANGED <<pc, err>>
       ELSE IF ~gdal
       THEN /\ job' = [job EXCEPT ![i] = "failed"]
            /\ IF Pooled(cfg) THEN UNCHANGED <<pc, err>>
               ELSE pc' = "failed" /\ err' = "gdal_viewshed not found in PATH"
       ELSE /\ job' = [job EXCEPT ![i] = "running"]
            /\ UNCHANGED <<pc, err>>
    /\ UNCHANGED <<cfg, dem, gdal, table, columns, df, nodes, stats, rejected, written,
                   ret, vis, files, rasters, coverage, geojson, result>>

\* the observer the primitive is called for: position and height (-ox -oy -oz)
Observer(n) == <<n.lat, n.lon, n.height_m>>

\* the primitive exits, lines 341-342 and _run: it fails, or it has written
\* out_path. Its raster is a function of the observer; a file that another
\* running job is writing at the same time ends up with any content
FinishJob(i) ==
    /\ pc = "running"
    /\ job[i] = "running"
    /\ \/ /\ job' = [job EXCEPT ![i] = "failed"]
          /\ IF Pooled(cfg) THEN UNCHANGED <<pc, err>>
             ELSE pc' = "failed" /\ err' = "Command failed"
          /\ UNCHANGED <<ret, vis, files>>
       \/ \E out \in {o \in PrimitiveOutputs :
                         \A k \in DOMAIN job :
                            (job[k] = "done" /\ ret[k] # NoPath
                               /\ Observer(nodes[k]) = Observer(nodes[i])) => vis[k] = o} :
            \E content \in
                  IF \E k \in Running(job) \ {i} :
                        ViewshedPath(nodes[k].node_id) = ViewshedPath(nodes[i].node_id)
                  THEN PrimitiveOutputs ELSE {out} :
              /\ job' = [job EXCEPT ![i] = "done"]
              /\ ret' = [ret EXCEPT ![i] = ViewshedPath(nodes[i].node_id)]
              /\ vis' = [vis EXCEPT ![i] = out]
              /\ files' = WriteFile(files, ViewshedPath(nodes[i].node_id), content)
              /\ UNCHANGED <<pc, err>>
    /\ UNCHANGED <<cfg, dem, gdal, table, columns, df, nodes, stats, rejected, written,
                   rasters, coverage, geojson, result>>

\* a collection that returns as soon as one job has returned
SomeJobFinished(j) == \E i \in DOMAIN j : j[i] \in {"done", "failed"}

\* pool.map, and the list comprehension, return when every job has returned
AllJobsFinished(j) == \A i \in DOMAIN j : j[i] \in {"done", "failed"}

\* a collection that takes a failed job for a skipped one
NoJobFailed(j) == FALSE

\* pool.map re-raises the exception of a failed job
AnyJobFailed(j) == \E i \in DOMAIN j : j[i] = "failed"

\* [r for r in rasters if r] over the jobs that returned
RECURSIVE ReturnedPaths(_, _, _)
ReturnedPaths(j, rt, i) ==
    IF i > Len(j) THEN <<>>
    ELSE (IF j[i] = "done" /\ rt[i] # NoPath THEN <<rt[i]>> ELSE <<>>)
             \o ReturnedPaths(j, rt, i + 1)

\* lines 359-367: the results come back, in job order
Collect ==
    /\ pc = "running"
    /\ AllJobsFinished(job)
    /\ IF AnyJobFailed(job)
       THEN /\ pc' = "failed"
            /\ err' = IF gdal THEN "Command failed" ELSE "gdal_viewshed not found in PATH"
            /\ UNCHANGED rasters
       ELSE IF ReturnedPaths(job, ret, 1) = <<>>
       THEN /\ pc' = "failed"
            /\ err' = "No viewshed rasters generated"
            /\ UNCHANGED rasters
       ELSE /\ pc' = "collected"
            /\ rasters' = ReturnedPaths(job, ret, 1)
            /\ err' = err
    /\ UNCHANGED <<cfg, dem, gdal, table, columns, df, nodes, stats, rejected, written,
                   job, ret, vis, files, coverage, geojson, result>>

\* a merge that writes an all-zero coverage raster for an empty list
MergeEmptyAsZero ==
    /\ pc = "collected"
    /\ pc' = "merged"
    /\ coverage' = MergeAcc(files, rasters, dem)
    /\ written' = written \cup {"coverage_tif"}
    /\ result' = MergeResult(MergeAcc(files, rasters, dem))
    /\ err' = err
    /\ UNCHANGED <<cfg, dem, gdal, table, columns, df, nodes, stats, rejected,
                   job, ret, vis, files, rasters, geojson>>

\* merge_binary_rasters(rasters, coverage_tif, template_path=dem_path): the
\* accumulator exists once the template was opened (lines 17-20); the output
\* directory is made and the file written in one go (lines 42-45)
Merge ==
    /\ pc = "collected"
    /\ IF rasters = <<>>
       THEN /\ pc' = "failed"
            /\ err' = "No viewshed rasters provided for merge"
            /\ UNCHANGED <<coverage, written, result>>
       ELSE /\ pc' = "merged"
            /\ coverage' = MergeAcc(files, rasters, dem)
            /\ written' = written \cup {"coverage_tif"}
            /\ result' = MergeResult(MergeAcc(files, rasters, dem))
            /\ err' = err
    /\ UNCHANGED <<cfg, dem, gdal, table, columns, df, nodes, stats, rejected,
                   job, ret, vis, files, rasters, geojson>>

\* one feature of _nodes_to_geojson, lines 276-287
Feature(n) ==
    [id |-> n.node_id, name |-> n.name, height_m |-> n.height_m,
     height_input_m |-> n.input_height_m,
     height_min_required_m |-> n.min_required_height_m,
     ground_elev_m |-> n.ground_elev_m, coordinates |-> <<n.lon, n.lat>>]

\* line 378
SkippedOutsideDem(n, r) == Len(n) - Len(r)

\* lines 374-384: the node listing and the returned dictionary
Finish ==
    /\ pc = "merged"
    /\ pc' = "done"
    /\ written' = written \cup {"nodes_geojson"}
    /\ geojson' = [i \in 1..Len(nodes) |-> Feature(nodes[i])]
    /\ result' = [nodes |-> Len(nodes),
                  nodes_skipped_outside_dem |-> SkippedOutsideDem(nodes, rasters),
                  node_input_stats |-> stats,
                  viewshed_rasters |-> Len(rasters),
                  coverage_tif |-> result.coverage_tif,
                  max_count |-> result.max_count,
                  sum |-> result.sum]
    /\ UNCHANGED <<cfg, dem, gdal, table, columns, df, nodes, stats, rejected,
                   job, ret, vis, files, rasters, coverage, err>>

(***************************************************************************)
(* Inputs.                                                                 *)
(***************************************************************************)
\* the defaults the code falls back to (lines 130-139, 163-174, 354-355)
DefaultCfg ==
    [drop_invalid_coords |-> TRUE, drop_zero_coords |-> TRUE, dedupe_by_id |-> TRUE,
     observer_height_default_m |-> 6, mode |-> "adaptive_min",
     min_height_m |-> 4, max_height_m |-> 120,
     local_radius_m |-> 300, clearance_margin_m |-> 2,
     use_fresnel |-> TRUE, fresnel_clearance_ratio |-> 60,
     fresnel_sample_ratio |-> 50, frequency_mhz |-> 868, max_distance_m |-> 20000,
     parallel |-> TRUE, workers |-> 4]

\* a 2 x 3 terrain raster whose north-west pixel holds (lat, lon) = (51, 14)
HillDem ==
    [height |-> 2, width |-> 3, north |-> 51, west |-> 14,
     pixel_x |-> 100, pixel_y |-> 100,
     elev |-> << <<200, 210, 260>>, <<205, 200, 230>> >>]
FlatDem ==
    [height |-> 2, width |-> 3, north |-> 51, west |-> 14,
     pixel_x |-> 100, pixel_y |-> 100,
     elev |-> << <<0, 0, 0>>, <<0, 0, 0>> >>]
FineDem ==
    [height |-> 2, width |-> 3, north |-> 51, west |-> 14,
     pixel_x |-> 50, pixel_y |-> 100,
     elev |-> << <<300, 280, 250>>, <<240, 310, 250>> >>]

Toggles ==
    {[DefaultCfg EXCEPT !.drop_invalid_coords = a, !.drop_zero_coords = b,
                        !.dedupe_by_id = c] : a \in BOOLEAN, b \in BOOLEAN, c \in BOOLEAN}

\* rows of a nodes file: two identifiers (one of them also with a leading
\* blank) and a blank one, on two pixels of the raster, on the (0,0)
\* sentinel, with a latitude out of range and with an unparseable latitude
IngestRows ==
    {[id |-> "A",  lat |-> Num(51), lon |-> Num(14), h |-> Missing],
     [id |-> " A", lat |-> Num(50), lon |-> Num(16), h |-> Missing],
     [id |-> "B",  lat |-> Num(51), lon |-> Num(14), h |-> Missing],
     [id |-> "A",  lat |-> Num(0),  lon |-> Num(0),  h |-> Missing],
     [id |-> "B",  lat |-> Num(0),  lon |-> Num(0),  h |-> Missing],
     [id |-> "A",  lat |-> Num(95), lon |-> Num(14), h |-> Missing],
     [id |-> "B",  lat |-> Num(95), lon |-> Num(14), h |-> Missing],
     [id |-> "A",  lat |-> Text,    lon |-> Num(14), h |-> Missing],
     [id |-> "B",  lat |-> Num(51), lon |-> Missing, h |-> Missing],
     [id |-> " ",  lat |-> Num(51), lon |-> Num(14), h |-> Missing]}

Tables(Rows, n) == UNION {[1..k -> Rows] : k \in 0..n}

InitCommon ==
    /\ pc = "start"
    /\ df = <<>>
    /\ nodes = <<>>
    /\ stats = NoStats
    /\ rejected = <<>>
    /\ written = {}
    /\ job = <<>>
    /\ ret = <<>>
    /\ vis = <<>>
    /\ files = {}
    /\ rasters = <<>>
    /\ coverage = NoRaster
    /\ geojson = <<>>
    /\ result = NoResult
    /\ err = ""

(***************************************************************************)
(* _load_nodes on every nodes file and every setting of the toggles.       *)
(***************************************************************************)
InitIngest ==
    /\ cfg \in Toggles
    /\ dem = HillDem
    /\ gdal = TRUE
    /\ table \in Tables(IngestRows, MaxRows)
    /\ columns = required
    /\ InitCommon

SpecIngest == InitIngest /\ [][LoadNodes]_vars

(***************************************************************************)
(* _load_nodes on one node under every height configuration.               *)
(***************************************************************************)
HeightCfgs ==
    {[DefaultCfg EXCEPT !.mode = m, !.min_height_m = lo, !.max_height_m = hi,
                        !.local_radius_m = lr, !.clearance_margin_m = cm,
                        !.use_fresnel = uf, !.fresnel_clearance_ratio = fr,
                        !.frequency_mhz = f] :
        m \in {"adaptive_min", "fixed"}, lo \in {4, 30}, hi \in {120, 20},
        lr \in {100, 150, 300}, cm \in {-50, 0, 2}, uf \in BOOLEAN,
        fr \in {-10, 60, 100}, f \in {0, 868}}

HeightRows ==
    {[id |-> "A", lat |-> c[1], lon |-> c[2], h |-> h] :
        c \in {<<Num(51), Num(14)>>, <<Num(50), Num(15)>>, <<Num(49), Num(14)>>},
        h \in {Missing, Num(3), Num(50), Num(200)}}

InitHeight ==
    /\ cfg \in HeightCfgs
    /\ dem \in {HillDem, FlatDem, FineDem}
    /\ gdal = TRUE
    /\ table \in {<<r>> : r \in HeightRows}
    /\ columns = required
    /\ InitCommon

SpecHeight == InitHeight /\ [][LoadNodes]_vars

(***************************************************************************)
(* _fresnel_radius_m on every link distance, frequency and split ratio,    *)
(* applied by _load_nodes to one node. With a clearance ratio of 100       *)
(* percent the Fresnel margin of the node is the radius itself.            *)
(***************************************************************************)
FresnelCfgs ==
    {[DefaultCfg EXCEPT !.fresnel_clearance_ratio = 100, !.max_distance_m = d,
                        !.frequency_mhz = f, !.fresnel_sample_ratio = sp] :
        d \in {-1000, 0, 1, 2, 50, 1000, 20000},
        f \in {-868, 0, 1, 433, 868, 2400},
        sp \in {-10, 0, 1, 25, 50, 60, 99, 100, 150}}

InitFresnel ==
    /\ cfg \in FresnelCfgs
    /\ dem = HillDem
    /\ gdal = TRUE
    /\ table = <<[id |-> "A", lat |-> Num(51), lon |-> Num(14), h |-> Missing]>>
    /\ columns = required
    /\ InitCommon

SpecFresnel == InitFresnel /\ [][LoadNodes]_vars

(***************************************************************************)
(* _estimate_min_height_from_local_terrain on every pixel of three         *)
(* rasters, for radii below, at and above the pixel size, applied by       *)
(* _load_nodes to one node.                                                *)
(***************************************************************************)
TerrainCfgs ==
    {[DefaultCfg EXCEPT !.local_radius_m = lr, !.clearance_margin_m = cm] :
        lr \in {-100, 0, 1, 50, 100, 150, 300}, cm \in {-50, 0, 2}}

TerrainRows ==
    {[id |-> "A", lat |-> Num(la), lon |-> Num(lo), h |-> Missing] :
        la \in {50, 51}, lo \in {14, 15, 16}}

InitTerrain ==
    /\ cfg \in TerrainCfgs
    /\ dem \in {HillDem, FlatDem, FineDem}
    /\ gdal = TRUE
    /\ table \in {<<r>> : r \in TerrainRows}
    /\ columns = required
    /\ InitCommon

SpecTerrain == InitTerrain /\ [][LoadNodes]_vars

(***************************************************************************)
(* merge_binary_rasters on every list of rasters over a 1 x 2 template.    *)
(***************************************************************************)
TinyDem ==
    [height |-> 1, width |-> 2, north |-> 51, west |-> 14,
     pixel_x |-> 100, pixel_y |-> 100, elev |-> << <<0, 0>> >>]

\* 1 x 2 rasters of values 0..2, aligned or shifted by one pixel
MergeRasters ==
    {[height |-> 1, width |-> 2, off_r |-> 0, off_c |-> oc, px |-> << <<a, b>> >>] :
        oc \in {-1, 0, 1}, a \in 0..2, b \in 0..2}

\* the i-th raster of a list sits in the file of node "i"
MergePath(i) == ViewshedPath(ToString(i))

InitMerge ==
    /\ cfg = DefaultCfg
    /\ dem = TinyDem
    /\ gdal = TRUE
    /\ table = <<>>
    /\ columns = required
    /\ df = <<>>
    /\ nodes = <<>>
    /\ stats = NoStats
    /\ rejected = <<>>
    /\ written = {}
    /\ job = <<>>
    /\ ret = <<>>
    /\ pc = "collected"
    /\ coverage = NoRaster
    /\ geojson = <<>>
    /\ result = NoResult
    /\ err = ""
    /\ \E content \in Tables(MergeRasters, MaxRasters) :
          /\ vis = content
          /\ files = {<<MergePath(i), content[i]>> : i \in 1..Len(content)}
          /\ rasters = [i \in 1..Len(content) |-> MergePath(i)]

SpecMerge == InitMerge /\ [][Merge]_vars

(***************************************************************************)
(* A whole compute run.                                                    *)
(***************************************************************************)
\* rows of a nodes file: sound rows on two pixels of the raster, a sound row
\* outside the raster, the (0,0) sentinel, a latitude out of range, a height
\* cell that holds text
RunRows ==
    {[id |-> "A", lat |-> Num(51), lon |-> Num(14), h |-> Missing],
     [id |-> "A", lat |-> Num(50), lon |-> Num(16), h |-> Num(50)],
     [id |-> "B", lat |-> Num(51), lon |-> Num(14), h |-> Missing],
     [id |-> "B", lat |-> Num(49), lon |-> Num(14), h |-> Missing],
     [id |-> "B", lat |-> Num(0),  lon |-> Num(0),  h |-> Missing],
     [id |-> "A", lat |-> Num(95), lon |-> Num(14), h |-> Missing],
     [id |-> "B", lat |-> Num(50), lon |-> Num(16), h |-> Text]}

\* the columns of a nodes file that lacks a required one; line 111 raises
\* before a row of such a file is looked at
ShortColumns == {{"id", "lon"}, {"lat", "lon"}, {"name"}}

\* pooled, sequential by configuration, sequential for want of workers
RunModes == {<<TRUE, 2>>, <<FALSE, 4>>, <<TRUE, 1>>}

Init ==
    /\ cfg \in {[t EXCEPT !.parallel = m[1], !.workers = m[2]] :
                    t \in Toggles, m \in RunModes}
    /\ dem = HillDem
    /\ gdal \in BOOLEAN
    /\ \/ columns = required /\ table \in Tables(RunRows, MaxRunRows)
       \/ columns \in ShortColumns /\ table \in Tables(RunRows, MaxShortRows)
    /\ InitCommon

Next ==
    \/ LoadNodes
    \/ Dispatch
    \/ \E i \in DOMAIN job : StartJob(i)
    \/ \E i \in DOMAIN job : FinishJob(i)
    \/ Collect
    \/ Merge
    \/ Finish

Spec == Init /\ [][Next]_vars

(***************************************************************************)
(* Ingestion claims.                                                       *)
(***************************************************************************)
\* C1: the statistics of _load_nodes add up: rows_valid plus the five
\* rows_dropped_* counts equals rows_input, under every toggle setting.
C1_StatsAddUp ==
    pc = "loaded" =>
        stats.rows_valid + stats.rows_dropped_nan + stats.rows_dropped_empty_id
          + stats.rows_dropped_invalid_range + stats.rows_dropped_zero_coords
          + stats.rows_dropped_duplicate_id = stats.rows_input

\* C7: every row of the input is either a validated row or a row of the
\* rejected-records output (rows are told apart by their position in the file).
C7_EveryDroppedRowRejected ==
    pc = "loaded" =>
        {df[i].idx : i \in 1..Len(df)} \cup {rejected[i].idx : i \in 1..Len(rejected)}
            = 1..Len(table)

(***************************************************************************)
(* Height claims.                                                          *)
(***************************************************************************)
\* C8 as stated: the used height of every node lies in
\* [min_height_m, max_height_m], for every height configuration.
C8_HeightInBand ==
    pc = "loaded" =>
        \A i \in 1..Len(nodes) :
            cfg.min_height_m <= nodes[i].height_m /\ nodes[i].height_m <= cfg.max_height_m

\* C8 amended: the used height never exceeds max_height_m, and it is at
\* least min_height_m whenever min_height_m <= max_height_m.
C8_HeightInBandWhenBandOrdered ==
    pc = "loaded" =>
        \A i \in 1..Len(nodes) :
            /\ nodes[i].height_m <= cfg.max_height_m
            /\ cfg.min_height_m <= cfg.max_height_m
                   => cfg.min_height_m <= nodes[i].height_m

\* a node whose height the upper cap cut and one the lower bound raised
C8_Witness ==
    /\ pc = "loaded"
    /\ Len(nodes) = 1
    /\ cfg.min_height_m <= cfg.max_height_m
    /\ nodes[1].height_m = cfg.max_height_m
    /\ nodes[1].input_height_m > cfg.max_height_m

\* the used height of row r had the configuration been c
HeightUnder(c, d, r) == ResolveRow(c, d, r).height_used_m

\* C9: the used height is non-decreasing in the terrain floor and in the
\* Fresnel margin, hence in local_radius_m, clearance_margin_m and
\* fresnel_clearance_ratio, all other inputs held fixed.
C9_HeightMonotone ==
    pc = "loaded" =>
        \A i \in 1..Len(nodes) :
            LET r == Deduped(cfg, table)[i]
                n == nodes[i]
                fm == df[i].height_fresnel_margin_m
            IN  /\ \A dreq \in 0..3, dfm \in 0..3 :
                       UsedHeight(n.input_height_m, cfg.min_height_m, cfg.max_height_m,
                                  n.min_required_height_m + dreq, fm + dfm) >= n.height_m
                /\ \A lr \in {100, 150, 300, 450} :
                       lr >= cfg.local_radius_m =>
                           HeightUnder([cfg EXCEPT !.local_radius_m = lr], dem, r)
                               >= n.height_m
                /\ \A cm \in {-50, 0, 2, 40} :
                       cm >= cfg.clearance_margin_m =>
                           HeightUnder([cfg EXCEPT !.clearance_margin_m = cm], dem, r)
                               >= n.height_m
                /\ \A fr \in {-10, 60, 100, 200} :
                       fr >= cfg.fresnel_clearance_ratio =>
                           HeightUnder([cfg EXCEPT !.fresnel_clearance_ratio = fr], dem, r)
                               >= n.height_m

\* a node whose used height strictly grows with a wider radius, with a larger
\* margin and with a larger Fresnel ratio
C9_Witness ==
    /\ pc = "loaded"
    /\ Len(nodes) = 1
    /\ LET r == Deduped(cfg, table)[1]
       IN  /\ HeightUnder([cfg EXCEPT !.local_radius_m = 300], dem, r) > nodes[1].height_m
           /\ HeightUnder([cfg EXCEPT !.clearance_margin_m = 40], dem, r) > nodes[1].height_m
           /\ HeightUnder([cfg EXCEPT !.fresnel_clearance_ratio = 200], dem, r)
                  > nodes[1].height_m

(***************************************************************************)
(* Aggregation and orchestration claims.                                   *)
(***************************************************************************)
\* the number of nodes of the run whose own visibility raster, reprojected,
\* marks cell (r, c) visible
Observers(r, c) ==
    Cardinality({i \in 1..Len(nodes) : Reproject(vis[i], dem)[r][c] = 1})

\* C2: after a successful run every cell of the coverage raster equals the
\* number of nodes whose visibility raster marks the cell, so it lies in
\* 0..len(nodes), also when two nodes carry the same identifier.
C2_CellCountsObservers ==
    pc \in {"merged", "done"} =>
        \A r \in 1..dem.height, c \in 1..dem.width :
            /\ coverage[r][c] = Observers(r, c)
            /\ coverage[r][c] >= 0
            /\ coverage[r][c] <= Len(nodes)

\* the list rasters in the order given by the permutation p of its indices
Permuted(paths, p) == [i \in 1..Len(paths) |-> paths[p[i]]]

\* the number of pixels > 0 of a raster file
VisiblePixels(ras) == SumSeq(Flatten(Binarize(ras.px)))

Aligned(ras, d) ==
    ras.off_r = 0 /\ ras.off_c = 0 /\ ras.height = d.height /\ ras.width = d.width

\* C3: the merge does not depend on the order of the raster list (same count
\* grid, max_count and sum for every permutation), and for rasters aligned
\* to the template the sum is the number of visible-pixel occurrences.
C3_MergeOrderIndependent ==
    pc = "merged" =>
        /\ \A p \in Permutations(1..Len(rasters)) :
              /\ MergeAcc(files, Permuted(rasters, p), dem) = coverage
              /\ MergeResult(MergeAcc(files, Permuted(rasters, p), dem)) = result
        /\ (\A i \in 1..Len(rasters) : Aligned(ReadFile(files, rasters[i]), dem))
              => result.sum =
                     SumSeq([i \in 1..Len(rasters) |->
                                VisiblePixels(ReadFile(files, rasters[i]))])

\* two different rasters that overlap in a visible pixel were merged
C3_Witness ==
    /\ pc = "merged"
    /\ Len(rasters) >= 2
    /\ ReadFile(files, rasters[1]) # ReadFile(files, rasters[2])
    /\ \A i \in 1..Len(rasters) : Aligned(ReadFile(files, rasters[i]), dem)
    /\ result.max_count = 2
    /\ result.sum = 3

\* C4: the merge does not start while a job of the run is pending or
\* running, in the pooled and in the sequential mode.
C4_MergeAfterAllJobs ==
    pc \in {"collected", "merged", "done"} =>
        \A i \in DOMAIN job : job[i] \in {"done", "failed"}

\* a pooled run merged after two jobs had run side by side
C4_Witness ==
    /\ pc = "merged"
    /\ Pooled(cfg)
    /\ Len(job) >= 2
    /\ Len(rasters) >= 2

\* C5: once a visibility job has failed, the merge is never invoked, no
\* coverage raster is written, nothing is returned, and the run can only
\* end with the error of the failed job.
C5_FailureAborts ==
    (pc # "start" /\ pc # "loaded" /\ \E i \in DOMAIN job : job[i] = "failed") =>
        /\ pc \in {"running", "failed"}
        /\ coverage = NoRaster
        /\ "coverage_tif" \notin written
        /\ result = NoResult
        /\ pc = "failed" => err \in {"Command failed", "gdal_viewshed not found in PATH"}
        /\ pc = "running" => ENABLED Next

\* a pooled run aborted although another job had written its raster
C5_Witness ==
    /\ pc = "failed"
    /\ Pooled(cfg)
    /\ \E i \in DOMAIN job : job[i] = "failed"
    /\ \E i \in DOMAIN job : job[i] = "done" /\ ret[i] # NoPath

\* C6: the output paths of any two jobs of a run differ, for every node
\* list ingestion can produce under every toggle setting.
C6_DistinctOutputPaths ==
    pc = "running" =>
        \A i \in DOMAIN job, k \in DOMAIN job :
            i # k => ViewshedPath(nodes[i].node_id) # ViewshedPath(nodes[k].node_id)

\* a row that survives validation and lies on the raster: well-formed cells,
\* non-empty id, a valid position other than (0,0), a numeric or absent height
SoundRow(r) ==
    /\ Strip(r.id) # ""
    /\ r.lat.k = "num" /\ r.lon.k = "num"
    /\ r.h.k # "text"
    /\ ~InvalidCoord([lat |-> r.lat.v, lon |-> r.lon.v])
    /\ InGrid(dem, RowOf(dem, r.lat.v), ColOf(dem, r.lon.v))

\* C10: row-level and node-level problems never abort a run. Stated for the
\* nodes files with the required columns whose first row is sound, so that
\* a node and a raster remain whatever is dropped or skipped: such a run
\* fails only when the visibility primitive fails or is missing.
C10_RowProblemsNeverAbort ==
    (pc = "failed" /\ columns = required /\ table # <<>> /\ SoundRow(table[1])) =>
        err \in {"Command failed", "gdal_viewshed not found in PATH"}

(***************************************************************************)
(* Abort and skip claims.                                                  *)
(***************************************************************************)
OutputFiles ==
    {"nodes_rejected_csv", "nodes_clean_csv", "nodes_stats_json", "coverage_tif",
     "nodes_geojson"}

\* C11: a run that aborts because required node columns are missing, or
\* because no node is left after validation, has written none of its output
\* files.
C11_AbortWritesNothing ==
    (pc = "failed" /\ err \in {"Missing node columns", "No nodes found in CSV"}) =>
        written \cap OutputFiles = {}

\* C12: a missing gdal_viewshed executable is detected before any job is
\* handed to a worker: with the executable missing no job ever leaves the
\* pending state, and a run that got as far as its job list can only end
\* with the error of the missing executable, also when every node is off
\* the raster.
C12_PrimitiveCheckedBeforeDispatch ==
    ~gdal =>
        /\ \A i \in DOMAIN job : job[i] = "pending"
        /\ (pc = "failed" /\ job # <<>>) => err = "gdal_viewshed not found in PATH"

\* the nodes of the run whose position is off the terrain raster
OffRaster ==
    {i \in 1..Len(nodes) :
        ~InGrid(dem, RowOf(dem, nodes[i].lat), ColOf(dem, nodes[i].lon))}

\* C13: a node off the terrain raster never reaches the visibility
\* primitive, returns no raster path and does not fail; a finished run
\* reports exactly the number of such nodes as nodes_skipped_outside_dem and
\* still counts and lists every one of them.
C13_OutsideNodeSkipped ==
    /\ \A i \in OffRaster \cap DOMAIN job :
          /\ job[i] \in {"pending", "done"}
          /\ ret[i] = NoPath
          /\ vis[i] = EmptyRaster
    /\ pc = "done" =>
          /\ result.nodes_skipped_outside_dem = Cardinality(OffRaster)
          /\ result.viewshed_rasters = Len(nodes) - Cardinality(OffRaster)
          /\ result.nodes = Len(nodes)
          /\ "nodes_geojson" \in written
          /\ Len(geojson) = Len(nodes)
          /\ \A i \in OffRaster :
                /\ geojson[i].id = nodes[i].node_id
                /\ geojson[i].coordinates = <<nodes[i].lon, nodes[i].lat>>
                /\ \E k \in 1..Len(df) :
                      df[k].id = nodes[i].node_id /\ df[k].lat = nodes[i].lat

\* a finished run that skipped a node off the raster and merged another
C13_Witness ==
    /\ pc = "done"
    /\ OffRaster # {}
    /\ result.nodes_skipped_outside_dem = 1
    /\ result.viewshed_rasters >= 1
    /\ \E i \in OffRaster : job[i] = "done"

(***************************************************************************)
(* Completion-order claim.                                                 *)
(***************************************************************************)
\* the output paths of the nodes on the raster, in node-list order
RECURSIVE PathsInNodeOrder(_)
PathsInNodeOrder(i) ==
    IF i > Len(nodes) THEN <<>>
    ELSE (IF i \in OffRaster THEN <<>> ELSE <<ViewshedPath(nodes[i].node_id)>>)
             \o PathsInNodeOrder(i + 1)

\* the last node of the list that writes to the output path of node i
LastWriter(i) ==
    CHOOSE k \in (1..Len(nodes)) \ OffRaster :
        /\ ViewshedPath(nodes[k].node_id) = ViewshedPath(nodes[i].node_id)
        /\ \A m \in (1..Len(nodes)) \ OffRaster :
              ViewshedPath(nodes[m].node_id) = ViewshedPath(nodes[i].node_id) => m <= k

\* the count grid of a run whose jobs finish one after the other in
\* node-list order: every path holds what its last writer left there (the
\* raster of a node is a function of its observer)
RECURSIVE NodeOrderGridFrom(_)
NodeOrderGridFrom(i) ==
    IF i > Len(nodes) THEN ZeroGrid(dem)
    ELSE IF i \in OffRaster THEN NodeOrderGridFrom(i + 1)
    ELSE AddGrid(Reproject(vis[LastWriter(i)], dem), NodeOrderGridFrom(i + 1))

\* C14: what a finished run reports does not depend on the order in which
\* the jobs finished: the raster list is the list of the on-raster nodes'
\* paths in node-list order, and the counts, max_count and sum are those of
\* the run whose jobs finish in node-list order.
C14_ResultIndependentOfCompletionOrder ==
    pc = "done" =>
        /\ rasters = PathsInNodeOrder(1)
        /\ result.nodes = Len(nodes)
        /\ result.viewshed_rasters = Len(PathsInNodeOrder(1))
        /\ result.nodes_skipped_outside_dem = Len(nodes) - Len(PathsInNodeOrder(1))
        /\ result.max_count = MergeResult(NodeOrderGridFrom(1)).max_count
        /\ result.sum = MergeResult(NodeOrderGridFrom(1)).sum

\* the same for the runs without a pool, where the jobs can only finish in
\* node-list order
C14_SequentialRuns == ~Pooled(cfg) => C14_ResultIndependentOfCompletionOrder

(***************************************************************************)
(* Validated-set claims.                                                   *)
(***************************************************************************)
\* C15: the validated nodes are a subsequence of the input rows: node i is
\* the row of the file at position df[i].idx, and the positions strictly
\* increase along the list, for every input and every toggle setting.
C15_ValidatedIsSubsequence ==
    pc = "loaded" =>
        /\ Len(nodes) = Len(df)
        /\ \A i \in 1..Len(nodes) :
              /\ df[i].idx \in 1..Len(table)
              /\ nodes[i].node_id = Strip(table[df[i].idx].id)
              /\ nodes[i].lat = ToNumeric(table[df[i].idx].lat)
              /\ nodes[i].lon = ToNumeric(table[df[i].idx].lon)
        /\ \A i \in 1..Len(nodes), j \in 1..Len(nodes) :
              i < j => df[i].idx < df[j].idx

\* the input [A, B at (0,0), A] under the default toggles yields exactly [A]
C15_Witness ==
    /\ pc = "loaded"
    /\ cfg = DefaultCfg
    /\ Len(table) = 3
    /\ Strip(table[1].id) = "A" /\ Strip(table[3].id) = "A"
    /\ table[1] = table[3]
    /\ Strip(table[2].id) = "B" /\ table[2].lat = Num(0) /\ table[2].lon = Num(0)
    /\ Len(nodes) = 1
    /\ nodes[1].node_id = "A"
    /\ df[1].idx = 1

\* two rows kept, with a dropped row between them
C15_WitnessTwoKept ==
    /\ pc = "loaded"
    /\ Len(table) = 3
    /\ Len(nodes) = 2
    /\ df[1].idx = 1 /\ df[2].idx = 3

\* the positions in the file of the rows that carry identifier id
RowsOf(id) == {k \in 1..Len(table) : Strip(table[k].id) = id}

\* row k of the file passes the filters that come before the dedupe
PassesFilters(k) ==
    LET r == ParseFrame(table)[k]
    IN  /\ NotNaRow(r)
        /\ NonEmptyId(r)
        /\ cfg.drop_invalid_coords => ValidCoord(r)
        /\ cfg.drop_zero_coords => NonZeroCoord(r)

\* C16 as stated: every returned node has a non-empty identifier, unique
\* among the returned nodes, and its row is the first row of the input that
\* carries the identifier.
C16_UniqueFirstOccurrence ==
    pc = "loaded" =>
        /\ \A i \in 1..Len(nodes) : nodes[i].node_id # ""
        /\ \A i \in 1..Len(nodes), j \in 1..Len(nodes) :
              i # j => nodes[i].node_id # nodes[j].node_id
        /\ \A i \in 1..Len(nodes) :
              \A k \in RowsOf(nodes[i].node_id) : df[i].idx <= k

\* C16 amended: every returned node has a non-empty identifier; with
\* dedupe_by_id enabled the identifier is unique among the returned nodes
\* and its row is the first row of the input that carries the identifier
\* among the rows that passed the earlier filters.
C16_UniqueFirstSurvivor ==
    pc = "loaded" =>
        /\ \A i \in 1..Len(nodes) : nodes[i].node_id # ""
        /\ cfg.dedupe_by_id =>
              /\ \A i \in 1..Len(nodes), j \in 1..Len(nodes) :
                    i # j => nodes[i].node_id # nodes[j].node_id
              /\ \A i \in 1..Len(nodes) :
                    /\ df[i].idx \in RowsOf(nodes[i].node_id)
                    /\ PassesFilters(df[i].idx)
                    /\ \A k \in RowsOf(nodes[i].node_id) :
                          PassesFilters(k) => df[i].idx <= k

\* an identifier on three rows: the first is filtered out, the second is
\* retained, the third is dropped as a duplicate
C16_Witness ==
    /\ pc = "loaded"
    /\ cfg.dedupe_by_id
    /\ Len(table) = 3
    /\ RowsOf("A") = {1, 2, 3}
    /\ ~PassesFilters(1) /\ PassesFilters(2) /\ PassesFilters(3)
    /\ Len(nodes) = 1
    /\ df[1].idx = 2

\* the positions of the (0,0) rows of the file that reach the zero-coordinate
\* filter of lines 133-136
ZeroRows ==
    {k \in 1..Len(table) :
        LET r == ParseFrame(table)[k]
        IN  /\ NotNaRow(r)
            /\ NonEmptyId(r)
            /\ cfg.drop_invalid_coords => ValidCoord(r)
            /\ ZeroCoord(r)}

\* C17: with drop_zero_coords set no (0,0) row is validated; with it
\* cleared every (0,0) row that reaches the filter is validated, unless it
\* repeats the identifier of a validated earlier row; and either way
\* rows_dropped_zero_coords is the number of rows the filter removed.
C17_ZeroCoordsDroppedAndCounted ==
    pc = "loaded" =>
        /\ cfg.drop_zero_coords =>
              \A i \in 1..Len(nodes) : ~(nodes[i].lat = 0 /\ nodes[i].lon = 0)
        /\ ~cfg.drop_zero_coords =>
              \A k \in ZeroRows :
                  \E i \in 1..Len(df) :
                      /\ df[i].idx <= k
                      /\ df[i].id = Strip(table[k].id)
                      /\ df[i].idx < k => cfg.dedupe_by_id
        /\ stats.rows_dropped_zero_coords =
              IF cfg.drop_zero_coords THEN Cardinality(ZeroRows) ELSE 0

(***************************************************************************)
(* Fresnel radius claims.                                                  *)
(***************************************************************************)
\* C18 as stated: the Fresnel radius is 0 whenever distance_m <= 0 or
\* frequency_mhz <= 0 and strictly positive for every other input, whatever
\* the split ratio.
C18_RadiusZeroIffDegenerate ==
    (pc = "loaded" /\ cfg.use_fresnel /\ cfg.fresnel_clearance_ratio = 100) =>
        \A i \in 1..Len(df) :
            IF cfg.max_distance_m <= 0 \/ cfg.frequency_mhz <= 0
            THEN df[i].height_fresnel_margin_m = 0
            ELSE df[i].height_fresnel_margin_m > 0

\* C18 amended: the Fresnel radius is 0 whenever distance_m <= 0 or
\* frequency_mhz <= 0 or the split ratio is not strictly between 0 and 1,
\* and strictly positive for every other input.
C18_RadiusZeroIffDegenerateOrSplitOff ==
    (pc = "loaded" /\ cfg.use_fresnel /\ cfg.fresnel_clearance_ratio = 100) =>
        \A i \in 1..Len(df) :
            IF \/ cfg.max_distance_m <= 0
               \/ cfg.frequency_mhz <= 0
               \/ cfg.fresnel_sample_ratio <= 0
               \/ cfg.fresnel_sample_ratio >= 100
            THEN df[i].height_fresnel_margin_m = 0
            ELSE df[i].height_fresnel_margin_m > 0

\* a one-metre link at 2400 MHz split near its far end: a radius that is
\* small and still positive
C18_Witness ==
    /\ pc = "loaded"
    /\ cfg.fresnel_clearance_ratio = 100
    /\ cfg.max_distance_m = 1
    /\ cfg.frequency_mhz = 2400
    /\ cfg.fresnel_sample_ratio = 99
    /\ Len(df) = 1
    /\ df[1].height_fresnel_margin_m > 0

(***************************************************************************)
(* Empty-merge claim.                                                      *)
(***************************************************************************)
\* C19: merge_binary_rasters on an empty raster list fails at once with its
\* error: no accumulator was made from the template, no output file was
\* written, nothing is returned, and the raster files are untouched.
C19_EmptyMergeFailsFirst ==
    [][(pc = "collected" /\ rasters = <<>>) =>
           /\ pc' = "failed"
           /\ err' = "No viewshed rasters provided for merge"
           /\ coverage' = NoRaster
           /\ result' = NoResult
           /\ UNCHANGED <<coverage, written, result, files, rasters>>]_vars

\* the merge of an empty list has failed with nothing written
C19_Witness ==
    /\ pc = "failed"
    /\ rasters = <<>>
    /\ err = "No viewshed rasters provided for merge"
    /\ written = {}
    /\ coverage = NoRaster

(***************************************************************************)
(* Height formula claim.                                                   *)
(***************************************************************************)
\* clamp(x, lo, hi) as np.clip computes it: min(max(x, lo), hi)
Clamp(x, lo, hi) == Min2(Max2(x, lo), hi)

\* C20: the used height of every node is
\* clamp(max(input, min_height, terrain_floor, terrain_floor + fresnel_floor),
\* min_height, max_height), with fresnel_floor = max(0, radius * ratio) when
\* Fresnel is enabled and 0 otherwise: the Fresnel floor is added to the
\* terrain floor, not to the input height.
C20_UsedHeightFormula ==
    pc = "loaded" =>
        \A i \in 1..Len(nodes) :
            LET radius == _fresnel_radius_m(cfg.max_distance_m, cfg.frequency_mhz,
                                            cfg.fresnel_sample_ratio)
                fresnel_floor ==
                    IF cfg.use_fresnel
                    THEN Max2(0, (radius * cfg.fresnel_clearance_ratio) \div 100)
                    ELSE 0
                terrain_floor == nodes[i].min_required_height_m
            IN  /\ df[i].height_fresnel_margin_m = fresnel_floor
                /\ nodes[i].height_m =
                      Clamp(SetMax({nodes[i].input_height_m, cfg.min_height_m,
                                    terrain_floor, terrain_floor + fresnel_floor}),
                            cfg.min_height_m, cfg.max_height_m)

\* a node whose input height tops its terrain floor plus a positive Fresnel
\* floor: the input height is used as it is, nothing is added to it
C20_Witness ==
    /\ pc = "loaded"
    /\ Len(nodes) = 1
    /\ cfg.use_fresnel
    /\ df[1].height_fresnel_margin_m > 0
    /\ nodes[1].input_height_m > nodes[1].min_required_height_m + df[1].height_fresnel_margin_m
    /\ nodes[1].input_height_m + df[1].height_fresnel_margin_m <= cfg.max_height_m
    /\ nodes[1].height_m = nodes[1].input_height_m

\* a node raised to its terrain floor plus the Fresnel floor
C20_WitnessRaised ==
    /\ pc = "loaded"
    /\ Len(nodes) = 1
    /\ cfg.use_fresnel
    /\ df[1].height_fresnel_margin_m > 0
    /\ nodes[1].min_required_height_m > 0
    /\ nodes[1].height_m = nodes[1].min_required_height_m + df[1].height_fresnel_margin_m
    /\ nodes[1].height_m > nodes[1].input_height_m
    /\ nodes[1].height_m < cfg.max_height_m

(***************************************************************************)
(* Terrain floor claims.                                                   *)
(***************************************************************************)
\* the cells of raster d within hw pixels of (row, col) in both directions
WindowCells(d, row, col, hw) ==
    {<<r, c>> \in (0..(d.height - 1)) \X (0..(d.width - 1)) :
        /\ row - hw <= r /\ r <= row + hw
        /\ col - hw <= c /\ c <= col + hw}

\* max(0, M - ground + margin) over that window, 0 for an empty window
WindowFloor(d, row, col, hw, ground, margin) ==
    IF WindowCells(d, row, col, hw) = {} THEN 0
    ELSE Max2(0, SetMax({d.elev[w[1] + 1][w[2] + 1] : w \in WindowCells(d, row, col, hw)})
                    - ground + margin)

\* ceil(local_radius_m / pixel_size_m), pixel_size_m the finer cell size
HalfWidth(d, local_radius_m) == CeilDiv(local_radius_m, Min2(d.pixel_x, d.pixel_y))

\* C21 as stated: the terrain floor of a node is max(0, M - ground_elev +
\* clearance_margin) over the clipped window of half-width
\* ceil(local_radius_m / pixel_size_m), and 0 for an empty window.
C21_FloorOverCeilWindow ==
    (pc = "loaded" /\ cfg.mode = "adaptive_min") =>
        \A i \in 1..Len(nodes) :
            InGrid(dem, RowOf(dem, nodes[i].lat), ColOf(dem, nodes[i].lon)) =>
                nodes[i].min_required_height_m =
                    WindowFloor(dem, RowOf(dem, nodes[i].lat), ColOf(dem, nodes[i].lon),
                                HalfWidth(dem, cfg.local_radius_m),
                                nodes[i].ground_elev_m, cfg.clearance_margin_m)

\* C21 amended: the terrain floor of a node is max(0, M - ground_elev +
\* clearance_margin) over the clipped window of half-width
\* max(1, ceil(local_radius_m / pixel_size_m)), and 0 for an empty window,
\* also at positions off the raster; a flat 0-elevation window with
\* clearance_margin 2 yields exactly 2.
C21_FloorOverWindowOfAtLeastOnePixel ==
    (pc = "loaded" /\ cfg.mode = "adaptive_min") =>
        /\ \A i \in 1..Len(nodes) :
              InGrid(dem, RowOf(dem, nodes[i].lat), ColOf(dem, nodes[i].lon)) =>
                  /\ nodes[i].min_required_height_m =
                        WindowFloor(dem, RowOf(dem, nodes[i].lat),
                                    ColOf(dem, nodes[i].lon),
                                    Max2(1, HalfWidth(dem, cfg.local_radius_m)),
                                    nodes[i].ground_elev_m, cfg.clearance_margin_m)
                  /\ (dem = FlatDem /\ cfg.clearance_margin_m = 2) =>
                        nodes[i].min_required_height_m = 2
        /\ \A la \in {40, 49, 50, 52, 60}, lo \in {5, 13, 14, 17, 25}, g \in {0, 200} :
              /\ _estimate_min_height_from_local_terrain(
                     dem, la, lo, g, cfg.local_radius_m, cfg.clearance_margin_m)
                   = WindowFloor(dem, RowOf(dem, la), ColOf(dem, lo),
                                 Max2(1, HalfWidth(dem, cfg.local_radius_m)),
                                 g, cfg.clearance_margin_m)
              /\ WindowCells(dem, RowOf(dem, la), ColOf(dem, lo),
                             Max2(1, HalfWidth(dem, cfg.local_radius_m))) = {}
                   => _estimate_min_height_from_local_terrain(
                          dem, la, lo, g, cfg.local_radius_m, cfg.clearance_margin_m) = 0

\* a flat 0-elevation raster and a clearance margin of 2: the floor is 2
C21_Witness ==
    /\ pc = "loaded"
    /\ dem = FlatDem
    /\ cfg.clearance_margin_m = 2
    /\ Len(nodes) = 1
    /\ nodes[1].ground_elev_m = 0
    /\ nodes[1].min_required_height_m = 2

\* a window that the raster's edge clips and that does not reach the
\* raster's summit: the floor clears the highest cell inside the window
C21_WitnessClipped ==
    /\ pc = "loaded"
    /\ dem = HillDem
    /\ cfg.local_radius_m = 100
    /\ cfg.clearance_margin_m = 2
    /\ Len(nodes) = 1
    /\ nodes[1].lat = 51 /\ nodes[1].lon = 14
    /\ nodes[1].min_required_height_m = 12

(***************************************************************************)
(* Agreement of the two raster tests.                                      *)
(***************************************************************************)
\* job i returned the empty path: _compute_one skipped its node
Skipped(i) == job[i] = "done" /\ ret[i] = NoPath

SequentialFiles ==
    {<<ViewshedPath(nodes[i].node_id), vis[LastWriter(i)]>> :
        i \in (1..Len(nodes)) \ OffRaster}

\* C23: a finished run leaves the raster files, the coverage raster and the
\* counts that the run without a pool leaves for the same node list, in
\* the pooled mode under every interleaving of the workers as well.
C23_PooledMatchesSequential ==
    pc = "done" =>
        /\ files = SequentialFiles
        /\ coverage = NodeOrderGridFrom(1)
        /\ result.nodes = Len(nodes)
        /\ result.viewshed_rasters = Len(PathsInNodeOrder(1))
        /\ result.nodes_skipped_outside_dem = Cardinality(OffRaster)
        /\ result.max_count = MaxSeq(Flatten(NodeOrderGridFrom(1)))
        /\ result.sum = SumSeq(Flatten(NodeOrderGridFrom(1)))

\* the same for the runs without a pool, and for the runs whose nodes carry
\* pairwise different identifiers
C23_SequentialRuns == ~Pooled(cfg) => C23_PooledMatchesSequential

C23_DistinctIdentifierRuns ==
    (\A i \in 1..Len(nodes), k \in 1..Len(nodes) :
        i # k => nodes[i].node_id # nodes[k].node_id) => C23_PooledMatchesSequential

====
